---- MODULE Spec2Model ----
(***************************************************************************)
(* Inventory-and-ordering service (src/main.py, src/models.py).            *)
(*                                                                         *)
(* The store holds three tables: products, orders, order_items.  Every     *)
(* request handler opens its own SQLAlchemy session (get_db), works on the *)
(* objects that session loaded, and makes its changes durable only in      *)
(* db.commit().  A handler that raises leaves through get_db's             *)
(* "async with", which closes the session without committing.              *)
(*                                                                         *)
(* The state is the committed store.  What a handler answers is a function *)
(* of the store it finds and of the request, given by the operators        *)
(* <handler>_response; the handler's action is what it commits.            *)
(*                                                                         *)
(* Spec       : requests execute one at a time, each handler is one action.*)
(* SpecNonNeg : as Spec, and every create/update body supplies stock >= 0. *)
(* SpecConc   : create_order is split at its await points (db.get per      *)
(*              item, db.commit), so two requests interleave; the store    *)
(*              applies no row lock to the read of a product.              *)
(***************************************************************************)
EXTENDS Integers, Sequences, FiniteSets, TLC

VARIABLES
    products,      \* table products: id -> [name, stock]
    product_seq,   \* last identifier the store assigned to a product
    orders,        \* table orders: sequence, order id = index, -> [status]
    order_items,   \* table order_items: sequence, item id = index
    sessions,      \* SpecConc: the open create_order requests
    commits        \* SpecConc: number of create_order commits so far

vars == <<products, product_seq, orders, order_items, sessions, commits>>

store == <<products, product_seq, orders, order_items>>

----------------------------------------------------------------------------
(* Bounds of the model. *)

MaxProducts == 2
MaxOrders == 2
MaxItems == 2
MaxQty == 1
MaxStock == 2

(* Inputs. *)

ProductIds == 1..MaxProducts
OrderIds == 1..MaxOrders
Quantities == -1..MaxQty
StockInputs == -1..MaxStock

\* A create/update body: the other required fields are always supplied (they
\* are carried by name); stock is supplied or omitted.
ProductBodies ==
    {[name |-> "Widget"]} \cup {[name |-> "Widget", stock |-> s] : s \in StockInputs}

\* OrderCreate.items is list[dict]: any integers pass validation.
ItemInputs == [product_id : ProductIds, quantity : Quantities]

RECURSIVE SeqsUpTo(_, _)
SeqsUpTo(S, n) ==
    IF n = 0 THEN {<<>>}
    ELSE LET shorter == SeqsUpTo(S, n - 1)
         IN  shorter \cup {Append(q, x) : q \in {r \in shorter : Len(r) = n - 1}, x \in S}

OrderRequests == SeqsUpTo(ItemInputs, MaxItems)

----------------------------------------------------------------------------
(* models.py *)

\* class OrderStatus(str, enum.Enum): member name -> value.  The values are
\* the Russian strings of the source, written in Latin letters here.
OrderStatus ==
    [processing |-> "v protsesse", sent |-> "otpravlen", delivered |-> "dostavlen"]

\* What a client may send as "status": the three values, a member name, and
\* a string that is neither.
StatusInputs ==
    {"v protsesse", "otpravlen", "dostavlen", "processing", "otmenen"}

\* Product(**product.dict()): a column that is not given takes its default.
Product(fields) ==
    [name |-> fields.name,
     stock |-> IF "stock" \in DOMAIN fields THEN fields.stock ELSE 0]

\* Order(): status takes the column default.
Order == [status |-> "processing"]

OrderItem(order_id, product_id, quantity) ==
    [order_id |-> order_id, product_id |-> product_id, quantity |-> quantity]

----------------------------------------------------------------------------
(* Request validation (pydantic). *)

\* class ProductCreate: every field is required.
ProductCreate(body) == "stock" \in DOMAIN body /\ body.stock \in Int

\* class OrderStatusUpdate: status is parsed by value into an OrderStatus.
OrderStatusUpdate(value) == \E m \in DOMAIN OrderStatus : OrderStatus[m] = value

\* (mutant) the value is stored, not the member
OrderStatusOf_value(value) == value

OrderStatusOf(value) == CHOOSE m \in DOMAIN OrderStatus : OrderStatus[m] = value

----------------------------------------------------------------------------
(* The session of one request. *)

NoRows == [p \in {} |-> 0]

\* identity: the products this session loaded, id -> [loaded, stock, at]
\*   loaded = stock read from the store, stock = the object's attribute now,
\*   at = number of commits that had happened at the load (history)
\* new: the order items added to the session, in order
Session_new == [identity |-> NoRows, new |-> <<>>, failed |-> FALSE]

\* db.get(Product, id): the object this session already holds, else the
\* committed row, else None.
Session_has(sess, rows, id) == id \in DOMAIN sess.identity \/ id \in DOMAIN rows

Session_get(sess, rows, id, now) ==
    IF id \in DOMAIN sess.identity THEN sess.identity[id]
    ELSE [loaded |-> rows[id].stock, stock |-> rows[id].stock, at |-> now]

\* (mutant) the check and the decrement use the stock as loaded, not the
\* object's current attribute
create_order_item_stale(sess, rows, item, now) ==
    IF ~Session_has(sess, rows, item.product_id) THEN [sess EXCEPT !.failed = TRUE]
    ELSE LET product == Session_get(sess, rows, item.product_id, now)
         IN  IF product.loaded < item.quantity
             THEN [sess EXCEPT !.failed = TRUE]
             ELSE [sess EXCEPT
                     !.identity = (item.product_id :>
                                     [product EXCEPT !.stock = product.stock - item.quantity])
                                  @@ sess.identity,
                     !.new = Append(sess.new, item)]

\* (mutant) the decrement starts from the stock as loaded each time
create_order_item_once(sess, rows, item, now) ==
    IF ~Session_has(sess, rows, item.product_id) THEN [sess EXCEPT !.failed = TRUE]
    ELSE LET product == Session_get(sess, rows, item.product_id, now)
         IN  IF product.stock < item.quantity
             THEN [sess EXCEPT !.failed = TRUE]
             ELSE [sess EXCEPT
                     !.identity = (item.product_id :>
                                     [product EXCEPT !.stock = product.loaded - item.quantity])
                                  @@ sess.identity,
                     !.new = Append(sess.new, item)]

\* One pass of the loop of create_order over `item`.
create_order_item(sess, rows, item, now) ==
    IF ~Session_has(sess, rows, item.product_id) THEN [sess EXCEPT !.failed = TRUE]
    ELSE LET product == Session_get(sess, rows, item.product_id, now)
         IN  IF product.stock < item.quantity
             THEN [sess EXCEPT !.failed = TRUE]
             ELSE [sess EXCEPT
                     !.identity = (item.product_id :>
                                     [product EXCEPT !.stock = product.stock - item.quantity])
                                  @@ sess.identity,
                     !.new = Append(sess.new, item)]

\* The whole loop: stops at the first item that raises.
RECURSIVE create_order_loop(_, _, _, _)
create_order_loop(sess, rows, items, now) ==
    IF items = <<>> \/ sess.failed THEN sess
    ELSE create_order_loop(create_order_item(sess, rows, Head(items), now),
                           rows, Tail(items), now)

\* (mutant) the commit writes no stock
Session_flush_products_none(sess, rows) == rows

\* (mutant) the commit subtracts what the session took from the committed
\* stock (UPDATE ... SET stock = stock - n) instead of writing its value
Session_flush_products_relative(sess, rows) ==
    [p \in DOMAIN rows |->
        IF p \in DOMAIN sess.identity
        THEN [rows[p] EXCEPT !.stock =
                 rows[p].stock - (sess.identity[p].loaded - sess.identity[p].stock)]
        ELSE rows[p]]

\* db.commit(), products: an UPDATE of stock for every loaded product whose
\* stock attribute has a net change; the value written is the attribute.
Session_flush_products(sess, rows) ==
    [p \in DOMAIN rows |->
        IF p \in DOMAIN sess.identity /\ sess.identity[p].stock # sess.identity[p].loaded
        THEN [rows[p] EXCEPT !.stock = sess.identity[p].stock]
        ELSE rows[p]]

\* db.commit(), order_items: an INSERT for every added item, for order `oid`.
Session_flush_items(sess, rows, oid) ==
    rows \o [i \in 1..Len(sess.new) |->
                OrderItem(oid, sess.new[i].product_id, sess.new[i].quantity)]

----------------------------------------------------------------------------
(* Helpers over the tables. *)

RECURSIVE SumQty(_, _)
\* total quantity of the entries of `items` that reference product p
SumQty(items, p) ==
    IF items = <<>> THEN 0
    ELSE (IF Head(items).product_id = p THEN Head(items).quantity ELSE 0)
         + SumQty(Tail(items), p)

\* the rows of order `oid`, with their identifiers
ItemsOf(rows, oid) ==
    {<<i, rows[i]>> : i \in {j \in 1..Len(rows) : rows[j].order_id = oid}}

Referenced(rows, id) == \E i \in 1..Len(rows) : rows[i].product_id = id

\* (mutant) the DELETE has no WHERE clause
Removed_all(rows, id) == NoRows

Removed(rows, id) == [p \in DOMAIN rows \ {id} |-> rows[p]]

Sessions == {1, 2}

Idle == [pc |-> "idle", sess |-> Session_new, todo |-> <<>>, commit_no |-> 0,
         order_id |-> 0]

Init ==
    /\ products = NoRows
    /\ product_seq = 0
    /\ orders = <<>>
    /\ order_items = <<>>
    /\ sessions = [s \in Sessions |-> Idle]
    /\ commits = 0

----------------------------------------------------------------------------
(* Handlers, one request at a time. *)

create_product_response(body) == IF ~ProductCreate(body) THEN 422 ELSE 200

create_product(body) ==
    /\ product_seq < MaxProducts
    /\ IF ~ProductCreate(body)
       THEN UNCHANGED <<products, product_seq>>
       ELSE /\ products' = (product_seq + 1 :> Product(body)) @@ products
            /\ product_seq' = product_seq + 1
    /\ UNCHANGED <<orders, order_items, sessions, commits>>

list_products == UNCHANGED vars

get_product_response(product_id) ==
    IF product_id \notin DOMAIN products THEN 404 ELSE 200

get_product(product_id) == UNCHANGED vars

update_product_response(product_id, body) ==
    IF ~ProductCreate(body) THEN 422
    ELSE IF product_id \notin DOMAIN products THEN 404 ELSE 200

update_product(product_id, body) ==
    /\ IF ~ProductCreate(body) \/ product_id \notin DOMAIN products
       THEN UNCHANGED products
       ELSE products' = [products EXCEPT ![product_id] =
                            [name |-> body.name, stock |-> body.stock]]
    /\ UNCHANGED <<product_seq, orders, order_items, sessions, commits>>

\* (mutant) the order items of the product are deleted with it
delete_product_cascade(product_id) ==
    /\ IF product_id \notin DOMAIN products
       THEN UNCHANGED <<products, order_items>>
       ELSE /\ products' = [p \in DOMAIN products \ {product_id} |-> products[p]]
            /\ order_items' = SelectSeq(order_items, LAMBDA r : r.product_id # product_id)
    /\ UNCHANGED <<product_seq, orders, sessions, commits>>

\* order_items.product_id is a foreign key to products.id: for a product
\* that order items reference, the store either refuses the DELETE (the
\* commit raises and nothing changes) or, where it does not enforce foreign
\* keys, removes the row and leaves the items.
delete_product_response(product_id) ==
    IF product_id \notin DOMAIN products THEN {404}
    ELSE IF Referenced(order_items, product_id) THEN {200, 500} ELSE {200}

delete_product(product_id) ==
    /\ IF product_id \notin DOMAIN products
       THEN UNCHANGED products
       ELSE IF ~Referenced(order_items, product_id)
       THEN products' = Removed(products, product_id)
       ELSE \/ UNCHANGED products
            \/ products' = Removed(products, product_id)
    /\ UNCHANGED <<product_seq, orders, order_items, sessions, commits>>

create_order_response(items) ==
    IF create_order_loop(Session_new, products, items, commits).failed
    THEN 400 ELSE 200

create_order(items) ==
    /\ Len(orders) < MaxOrders
    /\ LET sess == create_order_loop(Session_new, products, items, commits)
       IN  IF sess.failed
           THEN UNCHANGED <<products, orders, order_items>>
           ELSE /\ products' = Session_flush_products(sess, products)
                /\ orders' = Append(orders, Order)
                /\ order_items' = Session_flush_items(sess, order_items, Len(orders) + 1)
    /\ UNCHANGED <<product_seq, sessions, commits>>

list_orders == UNCHANGED vars

get_order_response(order_id) == IF order_id \notin 1..Len(orders) THEN 404 ELSE 200

get_order(order_id) == UNCHANGED vars

update_order_status_response(order_id, value) ==
    IF ~OrderStatusUpdate(value) THEN 422
    ELSE IF order_id \notin 1..Len(orders) THEN 404 ELSE 200

update_order_status(order_id, value) ==
    /\ IF ~OrderStatusUpdate(value) \/ order_id \notin 1..Len(orders)
       THEN UNCHANGED orders
       ELSE orders' = [orders EXCEPT ![order_id].status = OrderStatusOf(value)]
    /\ UNCHANGED <<products, product_seq, order_items, sessions, commits>>

Next ==
    \/ \E body \in ProductBodies : create_product(body)
    \/ list_products
    \/ \E id \in ProductIds : get_product(id)
    \/ \E id \in ProductIds, body \in ProductBodies : update_product(id, body)
    \/ \E id \in ProductIds : delete_product(id)
    \/ \E items \in OrderRequests : create_order(items)
    \/ list_orders
    \/ \E id \in OrderIds : get_order(id)
    \/ \E id \in OrderIds, value \in StatusInputs : update_order_status(id, value)

Spec == Init /\ [][Next]_vars

\* Every create/update body that supplies stock supplies stock >= 0.
NonNegBodies == {b \in ProductBodies : "stock" \in DOMAIN b => b.stock >= 0}

NextNonNeg ==
    \/ \E body \in NonNegBodies : create_product(body)
    \/ list_products
    \/ \E id \in ProductIds : get_product(id)
    \/ \E id \in ProductIds, body \in NonNegBodies : update_product(id, body)
    \/ \E id \in ProductIds : delete_product(id)
    \/ \E items \in OrderRequests : create_order(items)
    \/ list_orders
    \/ \E id \in OrderIds : get_order(id)
    \/ \E id \in OrderIds, value \in StatusInputs : update_order_status(id, value)

SpecNonNeg == Init /\ [][NextNonNeg]_vars

----------------------------------------------------------------------------
(* create_order, interleaved.  A request runs from one await to the next    *)
(* without interruption: each db.get reads the committed row (the store     *)
(* takes no lock for it and shows every statement the latest committed      *)
(* data), the check and the decrement act on the session's own object, and  *)
(* db.commit writes the session's values.                                   *)

\* The request arrives: order = Order(); db.add(order).
co_begin(s, items) ==
    /\ sessions[s].pc = "idle"
    /\ sessions' = [sessions EXCEPT ![s] = [@ EXCEPT !.pc = "loop", !.todo = items]]
    /\ UNCHANGED <<store, commits>>

\* One pass of the loop, from "await db.get" to the next await.
co_item(s) ==
    /\ sessions[s].pc = "loop"
    /\ sessions[s].todo # <<>>
    /\ LET after == create_order_item(sessions[s].sess, products,
                                      Head(sessions[s].todo), commits)
       IN  sessions' = [sessions EXCEPT ![s] =
                           [@ EXCEPT !.sess = after,
                                     !.todo = Tail(@),
                                     !.pc = IF after.failed THEN "failed" ELSE "loop"]]
    /\ UNCHANGED <<store, commits>>

\* await db.commit() after the loop.
co_commit(s) ==
    /\ sessions[s].pc = "loop"
    /\ sessions[s].todo = <<>>
    /\ products' = Session_flush_products(sessions[s].sess, products)
    /\ orders' = Append(orders, Order)
    /\ order_items' = Session_flush_items(sessions[s].sess, order_items, Len(orders) + 1)
    /\ commits' = commits + 1
    /\ sessions' = [sessions EXCEPT ![s] =
                       [@ EXCEPT !.pc = "committed",
                                 !.commit_no = commits + 1,
                                 !.order_id = Len(orders) + 1]]
    /\ UNCHANGED product_seq

NextConc ==
    \/ \E body \in ProductBodies : create_product(body)
    \/ \E s \in Sessions, items \in OrderRequests : co_begin(s, items)
    \/ \E s \in Sessions : co_item(s)
    \/ \E s \in Sessions : co_commit(s)

SpecConc == Init /\ [][NextConc]_vars

----------------------------------------------------------------------------
(* Claims. *)

\* the items of the order with identifier oid, in insertion order
OrderLines(rows, oid) ==
    SelectSeq(rows, LAMBDA r : r.order_id = oid)

Prefix(items, i) == SubSeq(items, 1, i - 1)

\* every item names an existing product and asks for at most its stock as it
\* stands before the request
C1_EachWithinStock(items) ==
    \A i \in 1..Len(items) :
        /\ items[i].product_id \in DOMAIN products
        /\ items[i].quantity <= products[items[i].product_id].stock

\* every item names an existing product and asks for at most what the earlier
\* items of the same request leave of its stock
C1_EachWithinRemaining(items) ==
    \A i \in 1..Len(items) :
        /\ items[i].product_id \in DOMAIN products
        /\ items[i].quantity <= products[items[i].product_id].stock
                                  - SumQty(Prefix(items, i), items[i].product_id)

\* the requests the model lets through: create_order is cut off at MaxOrders
CanOrder == Len(orders) < MaxOrders

\* C1 as stated: a create_order request whose items each ask for at most the
\* stock of their product before the request succeeds, persists as many order
\* items as it has items, and lowers each referenced product's stock by
\* exactly the requested quantity.
C1_Original ==
    /\ [](\A items \in OrderRequests :
            CanOrder /\ C1_EachWithinStock(items) => create_order_response(items) = 200)
    /\ [][Len(orders') # Len(orders) =>
            \A items \in OrderRequests :
                create_order(items) /\ C1_EachWithinStock(items) =>
                    /\ Len(OrderLines(order_items', Len(orders'))) = Len(items)
                    /\ \A i \in 1..Len(items) :
                         products'[items[i].product_id].stock =
                             products[items[i].product_id].stock - items[i].quantity]_vars

\* C1 amended: a create_order request whose items each name an existing
\* product and ask for at most what the earlier items of the same request
\* leave of its stock succeeds, persists as many order items as it has items,
\* and lowers each referenced product's stock by exactly the sum of the
\* quantities the request asks of it.
C1_Amended ==
    /\ [](\A items \in OrderRequests :
            CanOrder /\ C1_EachWithinRemaining(items) => create_order_response(items) = 200)
    /\ [][Len(orders') # Len(orders) =>
            \A items \in OrderRequests :
                create_order(items) /\ C1_EachWithinRemaining(items) =>
                    /\ Len(orders') = Len(orders) + 1
                    /\ Len(order_items') = Len(order_items) + Len(items)
                    /\ Len(OrderLines(order_items', Len(orders'))) = Len(items)
                    /\ \A p \in DOMAIN products :
                         products'[p].stock = products[p].stock - SumQty(items, p)]_vars

\* an order of two items that name the same product, one unit each, has been
\* committed and has taken the product's last units
C1_Witness ==
    \E o \in 1..Len(orders) :
        LET lines == OrderLines(order_items, o)
        IN  /\ Len(lines) = 2
            /\ lines[1].product_id = lines[2].product_id
            /\ lines[1].quantity = 1 /\ lines[2].quantity = 1
            /\ lines[1].product_id \in DOMAIN products
            /\ products[lines[1].product_id].stock = 0

\* some item names a product that does not exist or asks for more than the
\* stock of its product
C2_SomeItemFails(items) ==
    \E i \in 1..Len(items) :
        \/ items[i].product_id \notin DOMAIN products
        \/ items[i].quantity > products[items[i].product_id].stock

\* C2 as stated: a create_order request with an item that names a nonexistent
\* product or asks for more than its product's stock is rejected, and the
\* committed store is as before the request.
C2_Original ==
    /\ [](\A items \in OrderRequests :
            CanOrder /\ C2_SomeItemFails(items) => create_order_response(items) = 400)
    /\ [][\A items \in OrderRequests :
            create_order(items) /\ C2_SomeItemFails(items) =>
                UNCHANGED <<products, orders, order_items>>]_vars

\* the value a client sends for each member of OrderStatus
C3_Accepted == {"v protsesse", "otpravlen", "dostavlen"}

C3_Member(value) ==
    CASE value = "v protsesse" -> "processing"
      [] value = "otpravlen" -> "sent"
      [] value = "dostavlen" -> "delivered"

\* C3: update_order_status on an existing order is accepted exactly when the
\* requested value is one of the three statuses; accepted, it sets the
\* order's status to that status whatever the current one is and touches no
\* other order; rejected, it changes no order; every persisted order's status
\* is one of the three.
C3_StatusUpdate ==
    /\ [](/\ \A o \in 1..Len(orders), v \in StatusInputs :
                (update_order_status_response(o, v) = 200) <=> (v \in C3_Accepted)
          /\ \A o \in 1..Len(orders) :
                orders[o].status \in {"processing", "sent", "delivered"})
    /\ [][orders' # orders =>
            \A o \in 1..Len(orders), v \in StatusInputs :
                update_order_status(o, v) =>
                    IF v \in C3_Accepted
                    THEN orders' = [orders EXCEPT ![o].status = C3_Member(v)]
                    ELSE orders' = orders]_vars

\* both orders have left the default status, one for each other value
C3_Witness ==
    /\ Len(orders) = 2
    /\ orders[1].status = "delivered"
    /\ orders[2].status = "sent"

\* C4 as stated: a create_product request that omits stock is accepted and
\* creates a product of stock 0; one that supplies stock s creates a product
\* whose stock reads back as s.
C4_Original ==
    /\ [](\A body \in ProductBodies :
            "stock" \notin DOMAIN body => create_product_response(body) = 200)
    /\ [][\A body \in ProductBodies :
            create_product(body) /\ product_seq < MaxProducts =>
                /\ product_seq' \in DOMAIN products'
                /\ products'[product_seq'].stock =
                      IF "stock" \in DOMAIN body THEN body.stock ELSE 0]_vars

\* C5 as stated: every persisted order item has a quantity >= 1, and
\* create_order never raises a product's stock.
C5_Original ==
    /\ [](\A i \in 1..Len(order_items) : order_items[i].quantity >= 1)
    /\ [][Len(orders') # Len(orders) =>
            \A p \in DOMAIN products : products'[p].stock <= products[p].stock]_vars

\* C6: once an order is persisted it stays, its order items (identifier,
\* product reference, quantity) never change, and its status changes only in
\* a step that is an update_order_status request for its identifier.
C6_OrderFrame ==
    [][orders' # orders \/ order_items' # order_items =>
          \A o \in 1..Len(orders) :
             /\ o <= Len(orders')
             /\ ItemsOf(order_items', o) = ItemsOf(order_items, o)
             /\ orders'[o].status # orders[o].status =>
                   \E v \in StatusInputs : update_order_status(o, v)]_vars

\* order 1 has had its status updated, a second order has been created, and
\* a product that an item of order 1 references has been deleted
C6_Witness ==
    /\ Len(orders) = 2
    /\ orders[1].status = "sent"
    /\ \E i \in 1..Len(order_items) :
          /\ order_items[i].order_id = 1
          /\ order_items[i].product_id \notin DOMAIN products

C7_Unreferenced(id) ==
    \A i \in 1..Len(order_items) : order_items[i].product_id # id

\* C7: delete_product on an existing product that no order item references
\* succeeds and removes exactly that product; from then on get_product on
\* its identifier answers NotFound; delete_product, get_product and
\* update_product (with a well-formed body) on an identifier with no product
\* answer NotFound and leave the store unchanged.
C7_Delete ==
    /\ [](\A id \in ProductIds :
            /\ id \in DOMAIN products /\ C7_Unreferenced(id) =>
                  delete_product_response(id) = {200}
            /\ id \notin DOMAIN products =>
                  /\ delete_product_response(id) = {404}
                  /\ get_product_response(id) = 404
                  /\ \A body \in ProductBodies :
                        "stock" \in DOMAIN body => update_product_response(id, body) = 404)
    /\ [][products' # products =>
            \A id \in ProductIds :
               /\ id \in DOMAIN products /\ C7_Unreferenced(id) /\ delete_product(id) =>
                     /\ DOMAIN products' = DOMAIN products \ {id}
                     /\ \A p \in DOMAIN products' : products'[p] = products[p]
                     /\ UNCHANGED <<product_seq, orders, order_items>>
                     /\ get_product_response(id)' = 404
               /\ id \notin DOMAIN products /\ id <= product_seq =>
                     id \notin DOMAIN products'
               /\ id \notin DOMAIN products =>
                     \A body \in ProductBodies :
                        delete_product(id) \/ get_product(id) \/ update_product(id, body) =>
                           UNCHANGED store]_vars

\* product 1 has been deleted while no order item referenced it, and
\* product 2 is still there
C7_Witness ==
    /\ product_seq = 2
    /\ DOMAIN products = {2}
    /\ C7_Unreferenced(1)

\* requests a and b have both committed, a first, and both loaded product p
\* before a committed: both passed the stock check before either commit
C8_Raced(a, b, p) ==
    /\ sessions[a].pc = "committed"
    /\ sessions[b].pc = "committed"
    /\ sessions[a].commit_no < sessions[b].commit_no
    /\ p \in DOMAIN sessions[a].sess.identity
    /\ p \in DOMAIN sessions[b].sess.identity
    /\ sessions[a].sess.identity[p].at < sessions[a].commit_no
    /\ sessions[b].sess.identity[p].at < sessions[a].commit_no

\* C8: when two create_order requests both pass the stock check of product p
\* before either commits, both commit: the order items of both are
\* persisted, and the stock left is what the later committer computed from
\* the stock it read, so the earlier committer's decrement is not in it.
C8_LostUpdate ==
    \A a \in Sessions, b \in Sessions, p \in ProductIds :
        C8_Raced(a, b, p) /\ SumQty(sessions[b].sess.new, p) # 0 =>
            /\ products[p].stock =
                  sessions[b].sess.identity[p].loaded - SumQty(sessions[b].sess.new, p)
            /\ SumQty(OrderLines(order_items, sessions[a].order_id), p)
                  = SumQty(sessions[a].sess.new, p)
            /\ SumQty(OrderLines(order_items, sessions[b].order_id), p)
                  = SumQty(sessions[b].sess.new, p)

\* oversell: two raced requests, every quantity >= 1, have persisted more
\* units of p than the stock both of them read, and the stock left is that
\* stock less the later committer's quantity only
C8_Witness ==
    \E a \in Sessions, b \in Sessions, p \in ProductIds :
        /\ C8_Raced(a, b, p)
        /\ \A i \in 1..Len(order_items) : order_items[i].quantity >= 1
        /\ sessions[a].sess.identity[p].loaded = sessions[b].sess.identity[p].loaded
        /\ SumQty(order_items, p) > sessions[a].sess.identity[p].loaded
        /\ SumQty(sessions[a].sess.new, p) >= 1
        /\ products[p].stock =
              sessions[a].sess.identity[p].loaded - SumQty(sessions[b].sess.new, p)

\* C9: with requests one at a time and every create/update body supplying
\* stock >= 0, every product's committed stock is >= 0.
C9_StockNonNegative ==
    \A p \in DOMAIN products : products[p].stock >= 0

\* an order of two items for the same product has taken its last two units
C9_Witness ==
    \E o \in 1..Len(orders), p \in DOMAIN products :
        /\ products[p].stock = 0
        /\ Len(OrderLines(order_items, o)) = 2
        /\ SumQty(OrderLines(order_items, o), p) = 2

\* C10: a product that is new in a step has no order item referencing it, and
\* a step that is not an update of product p leaves p's stock plus the
\* quantities of the order items referencing p as it was (so a product
\* created with stock s and never updated keeps stock + quantities = s);
\* a create_order request succeeds only if, for every product it names, the
\* quantities it asks of it sum to at most the product's stock.
C10_Conservation ==
    /\ [](\A items \in OrderRequests :
            CanOrder /\ create_order_response(items) = 200 =>
                \A i \in 1..Len(items) :
                    SumQty(items, items[i].product_id)
                        <= products[items[i].product_id].stock)
    /\ [][products' # products \/ order_items' # order_items =>
          \A p \in DOMAIN products' :
            IF p \notin DOMAIN products
            THEN SumQty(order_items', p) = 0
            ELSE products'[p].stock + SumQty(order_items', p)
                    # products[p].stock + SumQty(order_items, p) =>
                 \E body \in ProductBodies : update_product(p, body)]_vars

\* a product created with stock 2 has stock 0 after two orders of one unit
C10_Witness ==
    \E p \in DOMAIN products :
        /\ products[p].stock = 0
        /\ Len(orders) = 2
        /\ SumQty(OrderLines(order_items, 1), p) = 1
        /\ SumQty(OrderLines(order_items, 2), p) = 1
        /\ Len(order_items) = 2

====
